---- MODULE Spec2Model ----
(***************************************************************************)
(* The two benchmark-result scripts of the repository as state machines:   *)
(*   cseq_benchmark/utils/cseq_benchmark_tabs.py  (HTML tables)            *)
(*   csf_benchmark/utils/csf_benchmark_plot.py    (entropy charts)         *)
(* Each script is a fixed sequence of calls; a step of the model is one    *)
(* call.  The contents of the input files are the model's inputs.  A data  *)
(* frame is modelled by the set of its rows; strings are TLA+ strings and  *)
(* are built by concatenation exactly as the f-strings of the code build   *)
(* them.                                                                   *)
(***************************************************************************)
EXTENDS Integers, Sequences, FiniteSets, TLC

VARIABLES
    lib,        \* what the installed data-frame library does with a frame without rows
    script,     \* the script that runs: "tabs" or "plot" ("fn": a pure function is applied)
    status,     \* "running", "done" (the end of the script was reached), "raised" (uncaught exception)
    pc,         \* tabs: index of the next gen_tab call; plot: index of the current show_entropy_plot call
    sub,        \* plot: 0 before the chart is begun, then the index of the next add_to_entropy_plot call
    fs,         \* the input files observed so far that a later call reads again
    stdout,     \* lines the latest call printed to the standard output
    stderr,     \* lines the latest call printed to the error stream
    outcome,    \* how the latest call ended
    d,          \* the latest call's local data frame d when it ended ([none |-> TRUE] for None)
    tab,        \* the table the latest gen_tab call wrote
    conf,       \* the conf dictionary of the current show_entropy_plot call
    chart,      \* the series of the current figure, in drawing order
    added,      \* the series the latest add_to_entropy_plot call drew
    written,    \* names of the files written so far, in order
    missed,     \* TRUE once a call was skipped because its file was missing
    file,       \* the content of the file the latest call read
    firstAvail, \* plot: the first call of the current chart whose file held rows (0: none yet)
    drawnBy,    \* plot: the calls of the current chart that drew the uncompressed baseline
    arg,        \* fn: the argument of exp_str
    ret         \* fn: the label exp_str returned ("" before the call)

vars == <<lib, script, status, pc, sub, fs, stdout, stderr, outcome, d, tab, conf,
          chart, added, written, missed, file, firstAvail, drawnBy,
          arg, ret>>

----------------------------------------------------------------------------
(* Bounds of the model *)

\* most rows an input file holds
MaxRows == 2

\* exp_str is applied to 1..MaxN (and to the powers of ten around 10^9)
MaxN == 1200

----------------------------------------------------------------------------
(* Strings and numbers *)

Digit(n) ==
    CASE n = 0 -> "0" [] n = 1 -> "1" [] n = 2 -> "2" [] n = 3 -> "3"
      [] n = 4 -> "4" [] n = 5 -> "5" [] n = 6 -> "6" [] n = 7 -> "7"
      [] n = 8 -> "8" [] n = 9 -> "9"

RECURSIVE str(_)
\* Python's str(n) of a non-negative integer: its decimal digits
str(n) == IF n < 10 THEN Digit(n) ELSE str(n \div 10) \o Digit(n % 10)

RECURSIVE Gcd(_, _)
Gcd(a, b) == IF b = 0 THEN a ELSE Gcd(b, a % b)

RoundHalfUp(a, b) ==
    LET q == a \div b
        r == a % b
    IN  IF 2 * r < b THEN q ELSE q + 1

\* numpy's round of the quotient a/b (a >= 0, b > 0): nearest integer, ties to even
RoundHalfEven(a, b) ==
    LET q == a \div b
        r == a % b
    IN  IF 2 * r < b THEN q
        ELSE IF 2 * r > b THEN q + 1
        ELSE IF q % 2 = 0 THEN q ELSE q + 1

\* (num*100/universe).round(0).astype(int).  The quotient is evaluated in
\* lowest terms of 100/universe, which is the same rational number and keeps
\* the product inside 32-bit integers.
percent_of_ones(num, universe) ==
    LET g == Gcd(100, universe)
    IN  RoundHalfEven((100 \div g) * num, universe \div g)

----------------------------------------------------------------------------
(* The file system and get_data *)

tabs_data_dir == "."

Unread == [state |-> "unread", rows |-> {}]
Missing == [state |-> "missing", rows |-> {}]
Present(rows) == [state |-> "present", rows |-> rows]

None == [none |-> TRUE, rows |-> {}]
Frame(rows) == [none |-> FALSE, rows |-> rows]

Contents(universe) ==
    {Missing} \cup {Present(R) : R \in {S \in SUBSET universe : Cardinality(S) <= MaxRows}}

CsvName(filename) == filename \o ".csv"

\* get_data of either script on a file of content c: the data frame or None,
\* and what was printed
get_data(c, filename) ==
    IF c.state = "missing"
    THEN [d |-> None, stdout |-> <<>>,
          stderr |-> <<CsvName(filename) \o " not found and thus skipped">>]
    ELSE IF c.rows = {}
    THEN [d |-> None, stdout |-> <<"no data " \o CsvName(filename)>>, stderr |-> <<>>]
    ELSE [d |-> Frame(c.rows), stdout |-> <<>>, stderr |-> <<>>]

----------------------------------------------------------------------------
(* cseq_benchmark_tabs.py *)

exp_str_digits(n) == "10<sup>" \o str(Len(str(n))) \o "</sup>"

exp_str(n) == "10<sup>" \o str(Len(str(n)) - 1) \o "</sup>"

\* the rows a benchmark file may hold (columns distribution, universe, num)
TabRowUniverse ==
    { [distribution |-> "uniform",     universe |-> 1000000000, num |-> 55000000],
      [distribution |-> "uniform",     universe |-> 200,        num |-> 100],
      [distribution |-> "uniform",     universe |-> 200,        num |-> 13],
      [distribution |-> "adversarial", universe |-> 200,        num |-> 9],
      [distribution |-> "adversarial", universe |-> 1000000000, num |-> 500000000] }

NumericColumns == {"universe", "num", "bits/seed"}

\* f'{v}' of a value of column f
Fmt(f, v) == IF f \in NumericColumns THEN str(v) ELSE v

RECURSIVE Select(_, _)
\* for f, v in params.items(): d = d[d[f] == v]
Select(rows, params) ==
    IF params = <<>> THEN rows
    ELSE Select({r \in rows : r[Head(params).f] = Head(params).v}, Tail(params))

RECURSIVE ParamSuffix(_)
ParamSuffix(params) ==
    IF params = <<>> THEN ""
    ELSE "_" \o Fmt(Head(params).f, Head(params).v) \o ParamSuffix(Tail(params))

OutFilenameNoParams(filename, params) == filename \o ".html"

\* out_filename of gen_tab
OutFilename(filename, params) == filename \o ParamSuffix(params) \o ".html"

never_empty(rows) == FALSE

\* DataFrame.empty, line 37
empty(rows) == rows = {}

\* the filter every gen_tab call of the script passes
script_filter(p) == p > 5

WithPercent(rows) ==
    {[distribution |-> r.distribution, universe |-> r.universe, num |-> r.num,
      percent |-> percent_of_ones(r.num, r.universe)] : r \in rows}

\* lines 41 and 44: the percent column is computed, then the filter is applied
Filtered(rows) == {r \in WithPercent(rows) : script_filter(r.percent)}

Values == {"space overhead [%]", "time / query [ns]"}

\* order of the metric names as Python compares strings (by their first character here)
StrKey(s) == CASE s = "space overhead [%]" -> 115 [] s = "time / query [ns]" -> 116

\* pivot_table: column levels (metric, bit vector length, percent of ones)
PivotLevels == <<"", "bit vector length", "percent of ones">>
PivotColumns(rows) == {<<m, r.universe, r.percent>> : m \in Values, r \in rows}

\* reorder_levels(order): level i of the result is level order[i] (0-based) of the input
ReorderLevels(c, order) == [i \in 1..Len(order) |-> c[order[i] + 1]]

\* whether column a sorts before column b under ascending = <<asc1, asc2, asc3>>
Before(x, y, asc) == IF asc THEN x < y ELSE x > y

ColBeforeAscending(a, b) ==
    \/ a[1] < b[1]
    \/ a[1] = b[1] /\ a[2] < b[2]
    \/ a[1] = b[1] /\ a[2] = b[2] /\ StrKey(a[3]) < StrKey(b[3])

ColBefore(a, b) ==
    \/ Before(a[1], b[1], FALSE)
    \/ a[1] = b[1] /\ Before(a[2], b[2], FALSE)
    \/ a[1] = b[1] /\ a[2] = b[2] /\ Before(StrKey(a[3]), StrKey(b[3]), TRUE)

RECURSIVE SortIndex(_)
\* sort_index(axis='columns', level=[0,1,2], ascending=[False, False, True])
SortIndex(S) ==
    IF S = {} THEN <<>>
    ELSE LET first == CHOOSE c \in S : \A o \in S \ {c} : ColBefore(c, o)
         IN  <<first>> \o SortIndex(S \ {first})

\* rename(exp_str, axis='columns', level=0)
Rename(cols) == [i \in 1..Len(cols) |-> <<exp_str(cols[i][1]), cols[i][2], cols[i][3]>>]

NoTab == [name |-> "", levels |-> <<>>, sorted |-> <<>>, header |-> <<>>]

\* what the data-frame library does with a frame without rows: it raises or
\* it returns an empty result, depending on its version
LibraryOutcomes == {"raises", "returns"}

\* gen_tab on a file of content c; library is the library's behaviour on an empty frame
gen_tab(c, filename, params, library) ==
    LET g == get_data(c, filename)
        selected == Select(g.d.rows, params)
        out_filename == OutFilename(filename, params)
        rows == Filtered(selected)
        cols == SortIndex({ReorderLevels(x, <<1, 2, 0>>) : x \in PivotColumns(rows)})
    IN  IF g.d.none
        THEN [outcome |-> IF c.state = "missing" THEN "missing" ELSE "no data",
              stdout |-> g.stdout, stderr |-> g.stderr, d |-> None,
              tab |-> NoTab, wrote |-> <<>>]
        ELSE IF empty(selected)
        THEN [outcome |-> "no needed data",
              stdout |-> <<"cannot construct " \o out_filename \o ", no needed data in "
                             \o CsvName(filename)>>,
              stderr |-> <<>>, d |-> Frame({}), tab |-> NoTab, wrote |-> <<>>]
        ELSE IF rows = {} /\ library = "raises"
        THEN [outcome |-> "raised", stdout |-> <<>>, stderr |-> <<>>, d |-> Frame({}),
              tab |-> NoTab, wrote |-> <<>>]
        ELSE [outcome |-> "written", stdout |-> <<>>, stderr |-> <<>>, d |-> Frame(rows),
              tab |-> [name |-> out_filename,
                       levels |-> ReorderLevels(PivotLevels, <<1, 2, 0>>),
                       sorted |-> cols,
                       header |-> Rename(cols)],
              wrote |-> <<out_filename>>]

\* the module-level calls, lines 76-82
TabCall(filename, params) == [filename |-> filename, params |-> params]

TabLoop(distribution) ==
    LET p == <<[f |-> "distribution", v |-> distribution]>>
    IN  <<TabCall("rank", p), TabCall("select1", p), TabCall("select0", p)>>

TabCalls ==
    LET p == <<[f |-> "distribution", v |-> "uniform"], [f |-> "universe", v |-> 1000000000]>>
    IN  TabLoop("uniform") \o TabLoop("adversarial")
        \o <<TabCall("rank", p), TabCall("select1", p), TabCall("select0", p)>>

TabPath(filename) == tabs_data_dir \o "/" \o CsvName(filename)

\* the contents a call may find in its file: what an earlier call observed, if any
Observe(path, universe) == IF fs[path].state = "unread" THEN Contents(universe) ELSE {fs[path]}

\* the file is kept in fs only while a later call of the sequence reads it again
Keep(path, c, readAgain) == [fs EXCEPT ![path] = IF readAgain THEN c ELSE Unread]

TabReadAgain(i) == \E j \in (i + 1)..Len(TabCalls) : TabCalls[j].filename = TabCalls[i].filename

TabFiles == {TabPath(TabCalls[i].filename) : i \in 1..Len(TabCalls)}

InitTabs ==
    /\ lib \in LibraryOutcomes
    /\ script = "tabs"
    /\ status = "running"
    /\ pc = 1
    /\ sub = 0
    /\ fs = [p \in TabFiles |-> Unread]
    /\ stdout = <<>>
    /\ stderr = <<>>
    /\ outcome = "none"
    /\ d = None
    /\ tab = NoTab
    /\ conf = [uncompressed_plot |-> FALSE]
    /\ chart = <<>>
    /\ added = <<>>
    /\ written = <<>>
    /\ missed = FALSE
    /\ file = Unread
    /\ firstAvail = 0
    /\ drawnBy = <<>>
    /\ arg = 0
    /\ ret = ""

\* one gen_tab call of the module's sequence
GenTab ==
    /\ script = "tabs"
    /\ status = "running"
    /\ pc \in 1..Len(TabCalls)
    /\ LET call == TabCalls[pc]
           path == TabPath(call.filename)
       IN  \E c \in Observe(path, TabRowUniverse) :
             LET r == gen_tab(c, call.filename, call.params, lib)
             IN  /\ fs' = Keep(path, c, TabReadAgain(pc))
                 /\ stdout' = r.stdout
                 /\ stderr' = r.stderr
                 /\ outcome' = r.outcome
                 /\ file' = c
                 /\ d' = r.d
                 /\ tab' = r.tab
                 /\ written' = written \o r.wrote
                 /\ missed' = (missed \/ r.outcome = "missing")
                 /\ status' = IF r.outcome = "raised" THEN "raised"
                              ELSE IF pc = Len(TabCalls) THEN "done" ELSE "running"
                 /\ pc' = IF r.outcome = "raised" THEN pc ELSE pc + 1
    /\ UNCHANGED <<lib, script, sub, conf, chart, added, firstAvail, drawnBy, arg, ret>>

NextTabs == GenTab

SpecTabs == InitTabs /\ [][NextTabs]_vars

----------------------------------------------------------------------------
(* csf_benchmark_plot.py *)

csf_data_dir == "csf_benchmark_results"

UNCOMPRESSED_LABEL == "(uncompressed) vector of values"

Row(e, b, dv, s) ==
    ("entropy" :> e) @@ ("bits/entry" :> b) @@ ("different_values" :> dv) @@ ("bits/seed" :> s)

\* rows of the files of the maps without a bits/seed parameter (the column is 0)
PlainRowUniverse == {Row(1, 2, 2, 0), Row(1, 3, 4, 0), Row(3, 4, 8, 0)}

\* rows of the cfpgo files
GoRowUniverse == {Row(1, 2, 2, 1), Row(1, 3, 4, 1), Row(3, 4, 8, 2), Row(3, 5, 9, 4), Row(1, 4, 2, 8)}

RECURSIVE bit_length(_)
\* int.bit_length of a non-negative integer
bit_length(n) == IF n = 0 THEN 0 ELSE 1 + bit_length(n \div 2)

\* A plotted value is the quotient of a pair <<numerator, denominator>>, denominator > 0
RatLeq(x, y) == x[1] * y[2] <= y[1] * x[2]

MaxRat(S) == CHOOSE x \in S : \A y \in S : RatLeq(y, x)

\* min of a group
MinRat(S) == CHOOSE x \in S : \A y \in S : RatLeq(x, y)

\* line 33 (and 34): the value of the uncompressed vector of a row
UncompressedValue(r, as_percent) ==
    LET v == bit_length(r["different_values"] - 1) - r["entropy"]
    IN  IF as_percent THEN <<100 * v, r["entropy"]>> ELSE <<v, 1>>

\* lines 38-41: d[label]
OverheadValue(r, as_percent) ==
    LET v == r["bits/entry"] - r["entropy"]
    IN  IF as_percent THEN <<100 * v, r["entropy"]>> ELSE <<v, 1>>

\* d.groupby(['entropy'])[column].min(), the column given as row -> value
GroupMin(rows, column) ==
    [e \in {r["entropy"] : r \in rows} |->
        MinRat({column[r] : r \in {x \in rows : x["entropy"] = e}})]

RECURSIVE LabelSuffix(_)
\* label += f' {f}={v}'
LabelSuffix(params) ==
    IF params = <<>> THEN ""
    ELSE " " \o Head(params).f \o "=" \o Fmt(Head(params).f, Head(params).v)
         \o LabelSuffix(Tail(params))

KeepFlag(cf) == cf

\* conf['uncompressed_plot'] = False, line 37
ClearFlag(cf) == [cf EXCEPT !.uncompressed_plot = FALSE]

Series(label, style, points) == [label |-> label, style |-> style, points |-> points]

\* add_to_entropy_plot on a file of content c with the conf dictionary cf;
\* library is the library's behaviour when it plots a series without points
add_to_entropy_plot(c, filename, as_percent, label, params, cf, library) ==
    LET g == get_data(c, filename)
        rows == Select(g.d.rows, params)
        full_label == label \o LabelSuffix(params)
        U == [r \in rows |-> UncompressedValue(r, as_percent)]
        V == [r \in rows |-> OverheadValue(r, as_percent)]
        baseline == IF cf.uncompressed_plot
                    THEN <<Series(UNCOMPRESSED_LABEL, "k--", GroupMin(rows, U))>>
                    ELSE <<>>
    IN  IF g.d.none
        THEN [outcome |-> IF c.state = "missing" THEN "missing" ELSE "no data",
              stdout |-> g.stdout, stderr |-> g.stderr, d |-> None,
              added |-> <<>>, conf |-> cf]
        ELSE IF rows = {} /\ cf.uncompressed_plot
        \* line 33: apply on a frame without rows returns a frame, which cannot
        \* be assigned to one column
        THEN [outcome |-> "raised", stdout |-> <<>>, stderr |-> <<>>, d |-> Frame({}),
              added |-> <<>>, conf |-> cf]
        ELSE IF rows = {} /\ library = "raises"
        THEN [outcome |-> "raised", stdout |-> <<>>, stderr |-> <<>>, d |-> Frame({}),
              added |-> <<>>, conf |-> cf]
        ELSE [outcome |-> "plotted", stdout |-> <<>>, stderr |-> <<>>, d |-> Frame(rows),
              added |-> baseline \o <<Series(full_label, "", GroupMin(rows, V))>>,
              conf |-> IF cf.uncompressed_plot THEN ClearFlag(cf) ELSE cf]

PlotCall(filename, label, params) == [filename |-> filename, label |-> label, params |-> params]

Seed(v) == <<[f |-> "bits/seed", v |-> v]>>

\* the add_to_entropy_plot calls of show_entropy_plot, lines 65-75
ChartCalls(dataset, compressed_methods) ==
    IF compressed_methods
    THEN << PlotCall("cfp_" \o dataset, "fp::CMap", <<>>),
            PlotCall("cls_" \o dataset, "ls::CMap", <<>>),
            PlotCall("cfpgo_" \o dataset, "fp::GOCMap", Seed(1)),
            PlotCall("cfpgo_" \o dataset, "fp::GOCMap", Seed(2)),
            PlotCall("cfpgo_" \o dataset, "fp::GOCMap", Seed(4)),
            PlotCall("cfpgo_" \o dataset, "fp::GOCMap", Seed(8)) >>
    ELSE << PlotCall("fp_" \o dataset, "fp::Map", <<>>),
            PlotCall("ls_" \o dataset, "ls::Map", <<>>) >>

\* svg_name, line 80
SvgName(as_percent, dataset, compressed_methods) ==
    dataset \o (IF compressed_methods THEN "_comp" ELSE "") \o "_"
        \o (IF as_percent THEN "rel" ELSE "abs")

Chart(as_percent, dataset, compressed_methods) ==
    [as_percent |-> as_percent, dataset |-> dataset, compressed_methods |-> compressed_methods]

PlotLoop(compressed_methods) ==
    << Chart(FALSE, "equal", compressed_methods), Chart(TRUE, "equal", compressed_methods),
       Chart(FALSE, "dominated", compressed_methods), Chart(TRUE, "dominated", compressed_methods) >>

\* the show_entropy_plot calls of the module, lines 95-99
PlotCharts == PlotLoop(FALSE) \o PlotLoop(TRUE)

CallsOf(k) == ChartCalls(PlotCharts[k].dataset, PlotCharts[k].compressed_methods)

PlotPath(filename) == csf_data_dir \o "/" \o CsvName(filename)

PlotFilesOf(k) == {PlotPath(CallsOf(k)[j].filename) : j \in 1..Len(CallsOf(k))}

PlotFiles == UNION {PlotFilesOf(k) : k \in 1..Len(PlotCharts)}

PlotReadAgain(k, j) ==
    \/ \E j2 \in (j + 1)..Len(CallsOf(k)) : CallsOf(k)[j2].filename = CallsOf(k)[j].filename
    \/ \E k2 \in (k + 1)..Len(PlotCharts) : PlotPath(CallsOf(k)[j].filename) \in PlotFilesOf(k2)

PlotUniverse(filename, dataset) ==
    IF filename = "cfpgo_" \o dataset THEN GoRowUniverse ELSE PlainRowUniverse

\* the dictionary literal of lines 96-99
FreshConf == [uncompressed_plot |-> TRUE]

InitPlot ==
    /\ lib \in LibraryOutcomes
    /\ script = "plot"
    /\ status = "running"
    /\ pc = 1
    /\ sub = 0
    /\ fs = [p \in PlotFiles |-> Unread]
    /\ stdout = <<>>
    /\ stderr = <<>>
    /\ outcome = "none"
    /\ d = None
    /\ tab = NoTab
    /\ conf = [uncompressed_plot |-> FALSE]
    /\ chart = <<>>
    /\ added = <<>>
    /\ written = <<>>
    /\ missed = FALSE
    /\ file = Unread
    /\ firstAvail = 0
    /\ drawnBy = <<>>
    /\ arg = 0
    /\ ret = ""

\* show_entropy_plot is entered, lines 62-64: a new figure, the caller's fresh conf
ShowEntropyPlotBegin ==
    /\ script = "plot"
    /\ status = "running"
    /\ pc \in 1..Len(PlotCharts)
    /\ sub = 0
    /\ sub' = 1
    /\ conf' = FreshConf
    /\ chart' = <<>>
    /\ added' = <<>>
    /\ outcome' = "none"
    /\ d' = None
    /\ stdout' = <<>>
    /\ stderr' = <<>>
    /\ file' = Unread
    /\ firstAvail' = 0
    /\ drawnBy' = <<>>
    /\ UNCHANGED <<lib, script, status, pc, fs, tab, written, missed, arg, ret>>

\* one add_to_entropy_plot call of show_entropy_plot
AddToEntropyPlot ==
    /\ script = "plot"
    /\ status = "running"
    /\ pc \in 1..Len(PlotCharts)
    /\ sub \in 1..Len(CallsOf(pc))
    /\ LET ch == PlotCharts[pc]
           call == CallsOf(pc)[sub]
           path == PlotPath(call.filename)
       IN  \E c \in Observe(path, PlotUniverse(call.filename, ch.dataset)) :
             LET r == add_to_entropy_plot(c, call.filename, ch.as_percent, call.label,
                                          call.params, conf, lib)
             IN  /\ fs' = Keep(path, c, PlotReadAgain(pc, sub))
                 /\ stdout' = r.stdout
                 /\ stderr' = r.stderr
                 /\ outcome' = r.outcome
                 /\ file' = c
                 /\ firstAvail' = IF firstAvail = 0 /\ c.state = "present" /\ c.rows # {}
                                  THEN sub ELSE firstAvail
                 /\ drawnBy' = IF \E i \in 1..Len(r.added) : r.added[i].label = UNCOMPRESSED_LABEL
                               THEN Append(drawnBy, sub) ELSE drawnBy
                 /\ d' = r.d
                 /\ added' = r.added
                 /\ chart' = chart \o r.added
                 /\ conf' = r.conf
                 /\ missed' = (missed \/ r.outcome = "missing")
                 /\ status' = IF r.outcome = "raised" THEN "raised" ELSE "running"
                 /\ sub' = IF r.outcome = "raised" THEN sub ELSE sub + 1
    /\ UNCHANGED <<lib, script, pc, tab, written, arg, ret>>

\* the rest of show_entropy_plot, lines 76-85: the figure is saved, scour
\* writes the final file, the figure is shown and closed
ShowEntropyPlotEnd ==
    /\ script = "plot"
    /\ status = "running"
    /\ pc \in 1..Len(PlotCharts)
    /\ sub = Len(CallsOf(pc)) + 1
    /\ LET ch == PlotCharts[pc]
           svg_name == SvgName(ch.as_percent, ch.dataset, ch.compressed_methods)
       IN  written' = written \o <<"uncompressed_" \o svg_name \o ".svg", svg_name \o ".svg">>
    /\ pc' = pc + 1
    /\ sub' = 0
    /\ status' = IF pc = Len(PlotCharts) THEN "done" ELSE "running"
    /\ outcome' = "saved"
    /\ added' = <<>>
    /\ d' = None
    /\ stdout' = <<>>
    /\ stderr' = <<>>
    /\ file' = Unread
    /\ UNCHANGED <<lib, script, fs, tab, conf, chart, missed, firstAvail, drawnBy, arg, ret>>

NextPlot == ShowEntropyPlotBegin \/ AddToEntropyPlot \/ ShowEntropyPlotEnd

SpecPlot == InitPlot /\ [][NextPlot]_vars

----------------------------------------------------------------------------
(* exp_str applied to one integer *)

ExpInputs == (1..MaxN) \cup {999999999, 1000000000, 1000000001, 2147483647}

InitExp ==
    /\ lib = "returns"
    /\ script = "fn"
    /\ status = "running"
    /\ pc = 1
    /\ sub = 0
    /\ fs = [p \in {} |-> Unread]
    /\ stdout = <<>>
    /\ stderr = <<>>
    /\ outcome = "none"
    /\ d = None
    /\ tab = NoTab
    /\ conf = [uncompressed_plot |-> FALSE]
    /\ chart = <<>>
    /\ added = <<>>
    /\ written = <<>>
    /\ missed = FALSE
    /\ file = Unread
    /\ firstAvail = 0
    /\ drawnBy = <<>>
    /\ arg \in ExpInputs
    /\ ret = ""

ExpStr ==
    /\ script = "fn"
    /\ status = "running"
    /\ ret' = exp_str(arg)
    /\ status' = "done"
    /\ UNCHANGED <<lib, script, pc, sub, fs, stdout, stderr, outcome, d, tab, conf, chart,
                   added, written, missed, file, firstAvail, drawnBy, arg>>

NextExp == ExpStr

SpecExp == InitExp /\ [][NextExp]_vars

----------------------------------------------------------------------------
(* Either script *)

Init == InitTabs \/ InitPlot

Next == NextTabs \/ NextPlot

Spec == Init /\ [][Next]_vars

\* Either script with a library that returns an empty result for an empty frame
InitLenient == Init /\ lib = "returns"

SpecLenient == InitLenient /\ [][Next]_vars

----------------------------------------------------------------------------
(* What the properties below refer to *)

\* whether row r has every column f of params equal to its value v
Matches(r, params) == \A i \in 1..Len(params) : r[params[i].f] = params[i].v

\* a gen_tab call has ended (by a return or an exception)
TabCallEnded == script = "tabs" /\ outcome # "none"

\* the gen_tab call that ended last
LastTabIndex == IF status = "raised" THEN pc ELSE pc - 1
LastTabCall == TabCalls[LastTabIndex]

\* an add_to_entropy_plot call has ended and no other step followed it
PlotCallEnded == script = "plot" /\ outcome \in {"missing", "no data", "plotted", "raised"}

\* the add_to_entropy_plot call that ended last, and the chart it belongs to
LastPlotIndex == IF status = "raised" THEN sub ELSE sub - 1
LastPlotCall == CallsOf(pc)[LastPlotIndex]
LastChart == PlotCharts[pc]

\* the rows of the file read last that the call's params select
Selection(params) == {r \in file.rows : Matches(r, params)}

\* p is the integer nearest to num*100/universe, the even one of two nearest
\* (universe is a multiple of 100 in every row of the model)
IsNearestEven(p, num, universe) ==
    LET m == universe \div 100
        e == IF num >= p * m THEN num - p * m ELSE p * m - num
    IN  2 * e < m \/ (2 * e = m /\ p % 2 = 0)

NearestEven(num, universe) == CHOOSE p \in 0..100 : IsNearestEven(p, num, universe)

\* bits/entry - entropy, or 100 times it over the entropy, as a quotient
Overhead(r, as_percent) ==
    IF as_percent
    THEN <<100 * (r["bits/entry"] - r["entropy"]), r["entropy"]>>
    ELSE <<r["bits/entry"] - r["entropy"], 1>>

\* bit length of different_values - 1, minus the entropy (or 100 times it over the entropy)
Uncompressed(r, as_percent) ==
    LET bits == CHOOSE k \in 0..31 : 2^k > r["different_values"] - 1
                    /\ \A j \in 0..(k - 1) : 2^j <= r["different_values"] - 1
    IN  IF as_percent THEN <<100 * (bits - r["entropy"]), r["entropy"]>>
        ELSE <<bits - r["entropy"], 1>>

Leq(x, y) == x[1] * y[2] <= y[1] * x[2]

\* entropy -> the least value of column(_) over the rows of that entropy
Best(rows, column) ==
    [e \in {r["entropy"] : r \in rows} |->
        CHOOSE v \in {column[r] : r \in {x \in rows : x["entropy"] = e}} :
            \A r \in rows : r["entropy"] = e => Leq(v, column[r])]

\* the label of the series of a call
OwnLabel(call) ==
    IF call.params = <<>> THEN call.label
    ELSE call.label \o " bits/seed=" \o Digit(call.params[1].v)

OwnSeries(call, as_percent) ==
    LET V == [r \in Selection(call.params) |-> Overhead(r, as_percent)]
    IN  [label |-> OwnLabel(call), style |-> "", points |-> Best(Selection(call.params), V)]

BaselineSeries(call, as_percent) ==
    LET U == [r \in Selection(call.params) |-> Uncompressed(r, as_percent)]
    IN  [label |-> "(uncompressed) vector of values", style |-> "k--",
         points |-> Best(Selection(call.params), U)]

\* the files the nine gen_tab calls write to
TabOutputs ==
    << "rank_uniform.html", "select1_uniform.html", "select0_uniform.html",
       "rank_adversarial.html", "select1_adversarial.html", "select0_adversarial.html",
       "rank_uniform_1000000000.html", "select1_uniform_1000000000.html",
       "select0_uniform_1000000000.html" >>

\* the files the eight show_entropy_plot calls write, in order
PlotOutputs ==
    << "uncompressed_equal_abs.svg", "equal_abs.svg",
       "uncompressed_equal_rel.svg", "equal_rel.svg",
       "uncompressed_dominated_abs.svg", "dominated_abs.svg",
       "uncompressed_dominated_rel.svg", "dominated_rel.svg",
       "uncompressed_equal_comp_abs.svg", "equal_comp_abs.svg",
       "uncompressed_equal_comp_rel.svg", "equal_comp_rel.svg",
       "uncompressed_dominated_comp_abs.svg", "dominated_comp_abs.svg",
       "uncompressed_dominated_comp_rel.svg", "dominated_comp_rel.svg" >>

\* the '.csv' inputs of the two scripts, by name and by the path they are opened with
InputNames ==
    {f \o ".csv" : f \in {"rank", "select1", "select0"}}
        \cup {"./" \o f \o ".csv" : f \in {"rank", "select1", "select0"}}
        \cup {m \o "_" \o ds \o ".csv" :
                 m \in {"fp", "ls", "cfp", "cls", "cfpgo"}, ds \in {"equal", "dominated"}}
        \cup {"csf_benchmark_results/" \o m \o "_" \o ds \o ".csv" :
                 m \in {"fp", "ls", "cfp", "cls", "cfpgo"}, ds \in {"equal", "dominated"}}

NoDuplicates(seq) == \A i, j \in 1..Len(seq) : i # j => seq[i] # seq[j]

----------------------------------------------------------------------------
(* C1 *)

\* C1: skip-and-continue on a missing input.  A call whose file is missing
\* reports it on the error stream and returns without writing a file or
\* adding a series, and once a call was skipped every later call is still
\* executed: the script does not end by an exception, it reaches its end.
C1_SkipAndContinue ==
    /\ (outcome = "missing" =>
            /\ Len(stderr) = 1
            /\ added = <<>>
            /\ tab = NoTab
            /\ status # "raised")
    /\ (missed => status # "raised")

----------------------------------------------------------------------------
(* C2 *)

\* C2: when the file of a gen_tab call has no rows, or no row has every
\* column of params equal to its value, the call prints one diagnostic
\* message and returns: the script goes on and no HTML file is written by
\* the call.
C2_NoRowsReturnsEarly ==
    (TabCallEnded /\ file.state = "present" /\ Selection(LastTabCall.params) = {}) =>
        /\ Len(stdout) = 1
        /\ status # "raised"
        /\ tab = NoTab
        /\ \A i \in 1..Len(written) : written[i] # TabOutputs[LastTabIndex]

C2_Witness ==
    /\ TabCallEnded
    /\ file.state = "present"
    /\ file.rows # {}
    /\ Selection(LastTabCall.params) = {}
    /\ outcome = "no needed data"

----------------------------------------------------------------------------
(* C3 *)

\* C3: wherever the row set of a call becomes empty (in add_to_entropy_plot
\* when no row matches params, in gen_tab when no row matches params or the
\* filter removes every row that matched), the call prints one diagnostic
\* message and returns before it groups, pivots, plots or writes.
C3_EmptyResultReturnsEarly ==
    /\ (PlotCallEnded /\ file.state = "present" /\ Selection(LastPlotCall.params) = {}) =>
            /\ Len(stdout) = 1
            /\ status # "raised"
            /\ added = <<>>
    /\ (TabCallEnded /\ file.state = "present"
          /\ \A r \in Selection(LastTabCall.params) : ~(NearestEven(r.num, r.universe) > 5)) =>
            /\ Len(stdout) = 1
            /\ status # "raised"
            /\ tab = NoTab

----------------------------------------------------------------------------
(* C4 *)

\* C4 as stated: the series a call adds do not depend on the earlier calls
\* of the same show_entropy_plot nor on whether their files existed.  When
\* the earlier files exist a later call adds its own series and nothing else
\* (C4_Witness), so by the claim a call that is not the first of its chart
\* adds exactly its own series, whatever the earlier files were.
C4_NoSharedState ==
    (PlotCallEnded /\ outcome = "plotted" /\ LastPlotIndex >= 2) =>
        added = <<OwnSeries(LastPlotCall, LastChart.as_percent)>>

\* C4 amended: the series named by the call's label is determined by the
\* call's own arguments and file; the call draws the uncompressed baseline
\* (from its own rows) before it exactly when no earlier call of the same
\* show_entropy_plot drew anything, which conf['uncompressed_plot'], shared
\* by the calls of one chart, records.
C4_SharedFlagOnly ==
    /\ (script = "plot" /\ sub >= 1) => (conf.uncompressed_plot <=> chart = <<>>)
    /\ (PlotCallEnded /\ outcome = "plotted") =>
          added = (IF Len(chart) = Len(added)
                   THEN <<BaselineSeries(LastPlotCall, LastChart.as_percent)>>
                   ELSE <<>>)
                  \o <<OwnSeries(LastPlotCall, LastChart.as_percent)>>

\* a later call of a chart whose first call drew: it adds its own series only
C4_Witness ==
    /\ PlotCallEnded
    /\ outcome = "plotted"
    /\ LastPlotIndex = 2
    /\ Len(chart) = 3
    /\ Len(added) = 1
    /\ DOMAIN added[1].points # {}

----------------------------------------------------------------------------
(* C5 *)

Pow10(k) == 10^k

\* C5: for a positive integer n, exp_str(n) is '10<sup>k</sup>' for the k
\* with 10^k <= n < 10^(k+1).
C5_ExpStrMagnitude ==
    (script = "fn" /\ status = "done") =>
        \E k \in 0..9 :
            /\ Pow10(k) <= arg
            /\ arg \div 10 < Pow10(k)
            /\ ret = "10<sup>" \o Digit(k) \o "</sup>"

C5_Witness == script = "fn" /\ arg = 1000000000 /\ ret = "10<sup>9</sup>"

----------------------------------------------------------------------------
(* C6 *)

\* C6: the percent of ones of a row is num*100/universe rounded to the
\* nearest integer, ties to even, and it is computed before the filter: a
\* selected row is kept if and only if its rounded percentage is greater than
\* 5, so every percent-of-ones header of a written table is at least 6.
C6_PercentRoundedThenFiltered ==
    (TabCallEnded /\ outcome = "written") =>
        /\ \A x \in d.rows : IsNearestEven(x.percent, x.num, x.universe)
        /\ {<<x.distribution, x.universe, x.num>> : x \in d.rows}
             = {<<r.distribution, r.universe, r.num>> :
                  r \in {y \in Selection(LastTabCall.params) :
                           NearestEven(y.num, y.universe) > 5}}
        /\ \A i \in 1..Len(tab.header) : tab.header[i][2] >= 6
        /\ {tab.header[i][2] : i \in 1..Len(tab.header)} = {x.percent : x \in d.rows}

\* a table was written from a file with a row at 6.5 percent (kept as 6)
\* next to a row that the filter removed
C6_Witness ==
    /\ TabCallEnded
    /\ outcome = "written"
    /\ \E x \in d.rows : x.num = 13 /\ x.percent = 6
    /\ Cardinality(file.rows) > Cardinality(d.rows)

----------------------------------------------------------------------------
(* C7 *)

\* C7: the series of a call has exactly one point per distinct entropy of
\* the rows that params select, and its value there is the minimum over the
\* rows of that entropy of bits/entry - entropy (as_percent false) or of
\* 100*(bits/entry - entropy)/entropy (as_percent true).
C7_BestPerEntropy ==
    (PlotCallEnded /\ outcome = "plotted") =>
        LET s == added[Len(added)]
            rows == Selection(LastPlotCall.params)
        IN  /\ DOMAIN s.points = {r["entropy"] : r \in rows}
            /\ \A e \in DOMAIN s.points :
                 /\ \E r \in rows :
                       /\ r["entropy"] = e
                       /\ Leq(s.points[e], Overhead(r, LastChart.as_percent))
                       /\ Leq(Overhead(r, LastChart.as_percent), s.points[e])
                 /\ \A r \in rows :
                       r["entropy"] = e => Leq(s.points[e], Overhead(r, LastChart.as_percent))

\* a relative chart's series over two rows of one entropy with different overheads
C7_Witness ==
    /\ PlotCallEnded
    /\ outcome = "plotted"
    /\ LastChart.as_percent
    /\ \E r1, r2 \in Selection(LastPlotCall.params) :
          r1["entropy"] = r2["entropy"] /\ r1["bits/entry"] < r2["bits/entry"]

----------------------------------------------------------------------------
(* C8 *)

\* C8: the column levels of a written table are (bit vector length, percent
\* of ones, metric); its columns are those of the kept rows, sorted by bit
\* vector length descending, then percent of ones descending, then metric
\* ascending; the sort compares the numeric lengths, and the renaming to
\* exp_str labels that follows keeps the order.
C8_ColumnOrder ==
    (TabCallEnded /\ outcome = "written") =>
        /\ tab.levels = <<"bit vector length", "percent of ones", "">>
        /\ {tab.sorted[i] : i \in 1..Len(tab.sorted)}
             = {<<x.universe, x.percent, m>> :
                  x \in d.rows, m \in {"space overhead [%]", "time / query [ns]"}}
        /\ \A i, j \in 1..Len(tab.sorted) :
              i < j =>
                LET a == tab.sorted[i]
                    b == tab.sorted[j]
                IN  \/ a[1] > b[1]
                    \/ a[1] = b[1] /\ a[2] > b[2]
                    \/ /\ a[1] = b[1]
                       /\ a[2] = b[2]
                       /\ a[3] = "space overhead [%]"
                       /\ b[3] = "time / query [ns]"
        /\ Len(tab.header) = Len(tab.sorted)
        /\ \A i \in 1..Len(tab.sorted) :
              tab.header[i] =
                  << IF tab.sorted[i][1] = 1000000000 THEN "10<sup>9</sup>"
                     ELSE IF tab.sorted[i][1] = 200 THEN "10<sup>2</sup>" ELSE "",
                     tab.sorted[i][2], tab.sorted[i][3] >>

\* a table with two bit vector lengths
C8_Witness ==
    /\ TabCallEnded
    /\ outcome = "written"
    /\ Len(tab.sorted) = 4
    /\ tab.sorted[1][1] = 1000000000
    /\ tab.sorted[4][1] = 200
    /\ tab.header[1][1] = "10<sup>9</sup>"

----------------------------------------------------------------------------
(* C9 *)

\* C9: within one show_entropy_plot call the uncompressed baseline is drawn
\* exactly once if a file of one of its calls is available (not missing, not
\* empty), by the first call whose file is available, and never if none is;
\* once it is drawn conf['uncompressed_plot'] is False for the rest of the
\* chart, and every show_entropy_plot call starts with the flag True.
C9_BaselineOnce ==
    (script = "plot" /\ sub >= 1) =>
        /\ (firstAvail = 0 => drawnBy = <<>>)
        /\ (firstAvail > 0 => drawnBy = <<firstAvail>>)
        /\ (drawnBy # <<>> => ~conf.uncompressed_plot)
        /\ (outcome = "none" => conf.uncompressed_plot)

----------------------------------------------------------------------------
(* C10 *)

\* C10: no file is written twice in a run and no input is overwritten: the
\* gen_tab calls write to nine distinct names (filename, then '_' and the
\* value of each params entry in order, then '.html'), the show_entropy_plot
\* calls to eight distinct '<dataset>[_comp]_<rel|abs>.svg' names and eight
\* distinct 'uncompressed_' intermediates, and no name written is the name of
\* a '.csv' input.
C10_DistinctOutputs ==
    /\ NoDuplicates(written)
    /\ \A i \in 1..Len(written) : written[i] \notin InputNames
    /\ NoDuplicates(TabOutputs)
    /\ NoDuplicates(PlotOutputs)
    /\ (TabCallEnded /\ outcome = "written") =>
          /\ tab.name = TabOutputs[LastTabIndex]
          /\ written[Len(written)] = tab.name
    /\ script = "tabs" => \A i \in 1..Len(written) : \E k \in 1..9 : written[i] = TabOutputs[k]
    /\ script = "plot" => written = SubSeq(PlotOutputs, 1, Len(written))
    /\ (script = "plot" /\ pc <= Len(PlotCharts)) => Len(written) = 2 * (pc - 1)

\* all nine tables were written
C10_Witness == script = "tabs" /\ status = "done" /\ Len(written) = 9

====
